---- MODULE Spec2Model ----
(***************************************************************************)
(* Model of src/main.py (geolonia/cleanup-s3): the bucket-draining engine. *)
(*                                                                         *)
(*   main          filters the candidate names, submits one worker per     *)
(*                 target to a pool of max_workers threads, collects the   *)
(*                 futures as they complete, prints the summary and exits. *)
(*   worker        empty_bucket, then delete_bucket or final = "emptied".  *)
(*   empty_bucket  pages through the listing, batches the keys of a page   *)
(*                 and deletes each batch with a bounded retry loop.       *)
(*   delete_bucket bounded retry loop, then one fallback drain and a last  *)
(*                 delete-bucket call.                                     *)
(*                                                                         *)
(* The provider (S3) is the environment: every list, delete-objects and    *)
(* delete-bucket call draws its outcome nondeterministically from the      *)
(* outcomes the code distinguishes: a response, ClientError with code      *)
(* NoSuchBucket, ClientError with another code.                            *)
(* One step of a task is one provider call together with all the code that *)
(* runs up to the next provider call.  Delays are counted in quarters of a *)
(* second.                                                                 *)
(***************************************************************************)
EXTENDS Integers, Sequences, FiniteSets, TLC

VARIABLES
    opts,       \* the command line: candidates, filters, flags, sizes
    limits,     \* what the provider may serve: [pages, keys] of one listing,
                \* and whether the tasks keep a log of their provider calls
    mainpc,     \* position of main: "start", "collect", "done"
    targets,    \* main's targets (after the filter)
    futs,       \* futs[t]: the task submitted for targets[t]
    collected,  \* futures as_completed has already yielded
    results,    \* main's results list
    errors,     \* buckets echoed as "[b] ERROR: ..." (stderr)
    report,     \* the printed summary block
    exit_code,  \* sys.exit status, -1 while running
    call,       \* a call of a pure function on its own: the function and its arguments
    ret         \* the value that call returned

vars == <<opts, limits, mainpc, targets, futs, collected, results, errors, report, exit_code,
          call, ret>>

----------------------------------------------------------------------------
(* Bounds of the model. *)

MaxTargets == 2      \* targets of a run
MaxWorkers == 2      \* --max-workers ranges over 1..MaxWorkers
MaxPages == 2        \* pages of one listing (single-bucket specification)
MaxPageKeys == 2     \* keys on one page (single-bucket specification)
MaxLen == 4          \* length of the key sequence given to batched
MaxNames == 3        \* length of the name list given to filter_buckets

(* In the many-bucket specification every listing is at most one page of   *)
(* one key: the scheduler's behaviour does not depend on the bucket size.  *)
RunLimits == [pages |-> 1, keys |-> 1, log |-> FALSE]
DrainLimits == [pages |-> MaxPages, keys |-> MaxPageKeys, log |-> TRUE]

----------------------------------------------------------------------------
(* Program constants. *)

default_batch_size == 1000      \* empty_bucket(batch_size=1000)
max_delete_retries == 5         \* empty_bucket(max_delete_retries=5)
retries == 5                    \* delete_bucket(retries=5)
Quiet == TRUE                   \* Delete={"Objects": batch, "Quiet": True}

ErrorCodes == {"NoSuchBucket", "Other"}   \* e.response["Error"]["Code"]

Min(a, b) == IF a <= b THEN a ELSE b

(* time.sleep(min(2 ** attempt * 0.25, 4.0)), in quarter seconds *)
errors_backoff(attempt) == Min(2 ^ attempt * 1, 16)
(* A mutant of client_error_backoff: the delay without its 4.0 s cap *)
client_error_backoff_uncapped(attempt) == 2 ^ attempt * 2

(* time.sleep(min(2 ** attempt * 0.5, 4.0)), in quarter seconds *)
client_error_backoff(attempt) == Min(2 ^ attempt * 2, 16)
(* time.sleep(min(2 ** i * 0.5, 5.0)), in quarter seconds *)
delete_bucket_backoff(i) == Min(2 ^ i * 2, 20)

----------------------------------------------------------------------------
(* Pure functions. *)

RECURSIVE batched_loop(_, _, _, _)
batched_loop(rest, n, batch, out) ==
    IF rest = <<>>
    THEN (IF batch # <<>> THEN Append(out, batch) ELSE out)
    ELSE LET b == Append(batch, Head(rest)) IN
         IF Len(b) >= n
         THEN batched_loop(Tail(rest), n, <<>>, Append(out, b))
         ELSE batched_loop(Tail(rest), n, b, out)

(* A mutant of batched: lines 25-26 are missing, a trailing group shorter   *)
(* than n is never yielded.                                                 *)
batched_no_tail(iterable, n) ==
    LET out == batched_loop(iterable, n, <<>>, <<>>) IN
    IF out # <<>> /\ Len(out[Len(out)]) < n THEN SubSeq(out, 1, Len(out) - 1) ELSE out

(* batched(iterable, n): the groups the generator yields, in order *)
batched(iterable, n) == batched_loop(iterable, n, <<>>, <<>>)

(* n.startswith(prefix), names and prefixes being sequences of characters *)
startswith(n, prefix) ==
    /\ Len(prefix) <= Len(n)
    /\ SubSeq(n, 1, Len(prefix)) = prefix

(* A mutant of rx_search: rx.match(n), which matches at the start of n only *)
rx_match(rx, n) ==
    LET atStart == Len(rx) > 0 /\ rx[1] = "^"
        atEnd == Len(rx) > 0 /\ rx[Len(rx)] = "$"
        lit == SubSeq(rx, IF atStart THEN 2 ELSE 1, IF atEnd THEN Len(rx) - 1 ELSE Len(rx))
        m == Len(lit)
    IN  /\ m <= Len(n)
        /\ SubSeq(n, 1, m) = lit
        /\ atEnd => m = Len(n)

(* re.compile(rx).search(n) for the patterns of the model: literal          *)
(* characters with an optional leading "^" and an optional trailing "$"     *)
rx_search(rx, n) ==
    LET atStart == Len(rx) > 0 /\ rx[1] = "^"
        atEnd == Len(rx) > 0 /\ rx[Len(rx)] = "$"
        lit == SubSeq(rx, IF atStart THEN 2 ELSE 1, IF atEnd THEN Len(rx) - 1 ELSE Len(rx))
        m == Len(lit)
    IN  \E p \in 1..(Len(n) - m + 1) :
            /\ SubSeq(n, p, p + m - 1) = lit
            /\ atStart => p = 1
            /\ atEnd => p + m - 1 = Len(n)

(* filter_buckets: an option that is None or "" is the empty sequence *)
filter_buckets(names, include_prefix, exclude_regex) ==
    LET out1 == IF include_prefix # <<>>
                THEN SelectSeq(names, LAMBDA n : startswith(n, include_prefix))
                ELSE names
    IN  IF exclude_regex # <<>>
        THEN SelectSeq(out1, LAMBDA n : ~rx_search(exclude_regex, n))
        ELSE out1

(* The provider's answer to delete_objects(batch) when it rejects the keys  *)
(* in failed: in quiet mode the response lists only the keys that failed.   *)
delete_objects_response(batch, failed, quiet) ==
    [Deleted |-> IF quiet THEN <<>> ELSE SelectSeq(batch, LAMBDA k : k \notin failed),
     Errors  |-> SelectSeq(batch, LAMBDA k : k \in failed)]

Range(s) == {s[j] : j \in 1..Len(s)}

----------------------------------------------------------------------------
(* Tasks.  A task is the future of worker(session, bucket, batch_size,      *)
(* do_delete_bucket).  Its record holds                                     *)
(*   - the position pc and the locals of the running empty_bucket frame     *)
(*     (Locals), which are gone when the frame is left, and delete_bucket's *)
(*     loop index i;                                                        *)
(*   - the summary dict (deleted, status, final) and the exception the      *)
(*     task raised (exc);                                                   *)
(*   - a log of the provider calls of the current frame (Log), kept until   *)
(*     the next frame starts or the future is collected.  It is recorded    *)
(*     only when limits.log is set:                                         *)
(*       pages         number of pages the listing of this drain has served *)
(*       listed        number of keys the listing of this drain has served  *)
(*       deleted_keys  keys the provider deleted in this drain              *)
(*       delete_calls  delete_objects calls of this drain                   *)
(*       batch_calls   delete_objects calls for the current original batch  *)
(*       last          <<operation, outcome>> of the last provider call     *)
(*       slept         the last time.sleep of the current retry loop        *)
(*       drain_ret     how the drain ended: none, emptied, gone, raised     *)
(*       drain_total   total_deleted when the drain ended                   *)
(*       caught        the exception delete_bucket's fallback swallowed     *)
(*   - a log of the calls of delete_bucket (RemoveLog), recorded like Log   *)
(*     and kept until the future is collected:                              *)
(*       rm_calls      delete_bucket calls made (loop and fallback)         *)
(*       rm_other      those that raised a ClientError not NoSuchBucket     *)
(*       fb_drains     drains started by the fallback                       *)

NoCall == <<"none", "none">>

Locals ==
    [n |-> 0, page_no |-> 0, batches |-> <<>>, batch |-> <<>>, attempt |-> 0,
     total_deleted |-> 0]

Log ==
    [pages |-> 0, listed |-> 0, deleted_keys |-> {}, delete_calls |-> 0, batch_calls |-> 0,
     last |-> NoCall, slept |-> 0, drain_ret |-> "none", drain_total |-> 0,
     caught |-> "none"]

(* the locals of delete_bucket: the loop index, and whether the fallback    *)
(* (lines 88-93) was entered                                                *)
RemoveLocals == [i |-> 0, fallback |-> FALSE]

RemoveLog == [rm_calls |-> 0, rm_other |-> 0, fb_drains |-> 0]

(* a delete_bucket call that ended in res is recorded *)
log_delete_bucket(r, res) ==
    [r EXCEPT !.last = <<"delete_bucket", res>>,
              !.rm_calls = r.rm_calls + 1,
              !.rm_other = r.rm_other + (IF res = "Other" THEN 1 ELSE 0)]

(* r with the fields of fresh (Locals, RemoveLocals, Log, RemoveLog) set back *)
drop(r, fresh) ==
    [f \in DOMAIN r |-> IF f \in DOMAIN fresh THEN fresh[f] ELSE r[f]]

(* ex.submit(worker, session, b, batch_size, delete_bucket) *)
submit(b) ==
    [bucket |-> b, pc |-> "pending",
     deleted |-> 0, status |-> "none", final |-> "none", exc |-> "none"]
        @@ Locals @@ RemoveLocals @@ Log @@ RemoveLog

Running(r) == r.pc \in {"list", "delete", "rm", "fb_rm"}
Finished(r) == r.pc \in {"returned", "raised"}

(* empty_bucket(s3_client, bucket, batch_size): lines 42-44 *)
start_drain(r, batch_size, is_fallback) ==
    [drop(drop(r, Locals), Log) EXCEPT !.pc = "list", !.n = batch_size, !.fallback = is_fallback,
                                       !.fb_drains = r.fb_drains + (IF is_fallback THEN 1 ELSE 0)]

(* worker, lines 105-108: summary["final"] = final; return summary *)
worker_return(r, final) ==
    [drop(drop(r, Locals), RemoveLocals) EXCEPT !.pc = "returned", !.final = final]

(* worker, lines 104-107: delete_bucket is entered, or final = "emptied" *)
worker_after_drain(r) ==
    IF opts.delete_bucket
    THEN [r EXCEPT !.pc = "rm", !.i = 0]
    ELSE worker_return(r, "emptied")

(* return {"bucket": bucket, "deleted": total_deleted, "status": status}:   *)
(* to worker (line 103), or to delete_bucket's fallback (line 89), which    *)
(* discards the value and goes on to its last delete-bucket call            *)
drain_return(r, status) ==
    LET r1 == [drop(r, Locals) EXCEPT !.drain_ret = status, !.drain_total = r.total_deleted] IN
    IF r.fallback
    THEN [r1 EXCEPT !.pc = "fb_rm"]
    ELSE worker_after_drain([r1 EXCEPT !.deleted = r.total_deleted, !.status = status])

(* A mutant of fallback_except: the handler catches ClientError only. *)
fallback_except_client_error_only(r, e) ==
    IF e \in ErrorCodes
    THEN worker_return([r EXCEPT !.caught = e], "failed")
    ELSE [drop(r, RemoveLocals) EXCEPT !.pc = "raised", !.exc = e]

(* delete_bucket, lines 92-93: except Exception: return "failed" *)
fallback_except(r, e) ==
    worker_return([r EXCEPT !.caught = e], "failed")

(* An exception leaves empty_bucket: it reaches the handler of the          *)
(* fallback, or it leaves worker and is set on the future.                  *)
drain_raise(r, e) ==
    LET r1 == [drop(r, Locals) EXCEPT !.drain_ret = "raised", !.drain_total = r.total_deleted] IN
    IF r.fallback
    THEN fallback_except(r1, e)
    ELSE [r1 EXCEPT !.pc = "raised", !.exc = e]

(* the next batch of the page (line 52), or the next page (line 46) *)
next_batch(r) ==
    IF r.batches # <<>>
    THEN [r EXCEPT !.pc = "delete", !.batch = Head(r.batches), !.batches = Tail(r.batches),
                   !.attempt = 0, !.batch_calls = 0, !.slept = 0]
    ELSE [r EXCEPT !.pc = "list", !.batch = <<>>, !.attempt = 0]

(* A mutant of on_page: an empty page ends the drain (break for continue). *)
on_page_empty_ends(r, keys) ==
    IF keys = <<>>
    THEN drain_return(r, "emptied")
    ELSE next_batch([r EXCEPT !.batches = batched(keys, r.n)])

(* lines 46-53: the body of "for page in pages" up to the first delete call *)
on_page(r, keys) ==
    IF keys = <<>>
    THEN r
    ELSE next_batch([r EXCEPT !.batches = batched(keys, r.n)])

(* A mutant of retry: the for-else is missing, an exhausted batch is left   *)
(* behind and the drain goes on.                                            *)
retry_no_else(r) ==
    IF r.attempt + 1 < max_delete_retries
    THEN [r EXCEPT !.attempt = r.attempt + 1]
    ELSE next_batch(r)

(* A mutant of retry: the loop has no last attempt, after the fifth one      *)
(* the batch is tried again from attempt 0.                                 *)
retry_restarts(r) ==
    [r EXCEPT !.attempt = (r.attempt + 1) % max_delete_retries]

(* the end of one iteration of "for attempt in range(max_delete_retries)"   *)
(* that did not break: the next attempt, or the for-else of lines 73-74     *)
retry(r) ==
    IF r.attempt + 1 < max_delete_retries
    THEN [r EXCEPT !.attempt = r.attempt + 1]
    ELSE drain_raise(r, "RuntimeError")

(* A mutant of on_response: lines 61-66 are missing, the Errors of the      *)
(* response are not looked at.                                              *)
on_response_ignores_errors(r, resp) ==
    next_batch([r EXCEPT !.total_deleted = r.total_deleted + Len(resp.Deleted)])

(* A mutant of on_response: line 64 is missing, the batch is retried whole *)
on_response_no_narrow(r, resp) ==
    LET r1 == [r EXCEPT !.total_deleted = r.total_deleted + Len(resp.Deleted)] IN
    IF resp.Errors # <<>>
    THEN retry([r1 EXCEPT !.slept = errors_backoff(r.attempt)])
    ELSE next_batch(r1)

(* lines 59-67: a delete_objects response *)
on_response(r, resp) ==
    LET r1 == [r EXCEPT !.total_deleted = r.total_deleted + Len(resp.Deleted)] IN
    IF resp.Errors # <<>>
    THEN retry([r1 EXCEPT !.batch = resp.Errors, !.slept = errors_backoff(r.attempt)])
    ELSE next_batch(r1)

(* A mutant of on_client_error: lines 70-71 are missing, NoSuchBucket is    *)
(* retried like any other ClientError.                                      *)
on_client_error_always_retries(r, code) ==
    retry([r EXCEPT !.slept = client_error_backoff(r.attempt)])

(* lines 68-72: delete_objects raised ClientError with this code *)
on_client_error(r, code) ==
    IF code = "NoSuchBucket"
    THEN drain_return(r, "gone")
    ELSE retry([r EXCEPT !.slept = client_error_backoff(r.attempt)])

(* A mutant of delete_bucket_loop: the loop makes one call only, the         *)
(* fallback starts after the first failure.                                 *)
delete_bucket_loop_single_try(r, res) ==
    IF res = "ok"
    THEN worker_return(r, "deleted")
    ELSE IF res = "NoSuchBucket"
    THEN worker_return(r, "gone")
    ELSE start_drain(r, default_batch_size, TRUE)

(* delete_bucket, lines 79-89: one iteration of the retry loop; when the    *)
(* loop is exhausted the fallback drain starts (default batch size)         *)
delete_bucket_loop(r, res) ==
    IF res = "ok"
    THEN worker_return(r, "deleted")
    ELSE IF res = "NoSuchBucket"
    THEN worker_return(r, "gone")
    ELSE IF r.i + 1 < retries
         THEN [r EXCEPT !.i = r.i + 1, !.slept = delete_bucket_backoff(r.i)]
         ELSE start_drain(r, default_batch_size, TRUE)

(* delete_bucket, lines 90-93: the delete-bucket call after the fallback *)
delete_bucket_last(r, res) ==
    IF res = "ok"
    THEN worker_return(r, "deleted")
    ELSE fallback_except(r, res)

----------------------------------------------------------------------------
(* The initial states: the command line, and what the provider may serve. *)

Digit == <<"1", "2", "3", "4", "5", "6", "7", "8", "9">>
BucketName(j) == <<"b", Digit[j]>>

(* candidate lists: the first n bucket names, or one name twice (a         *)
(* --buckets-file may repeat a line)                                        *)
Candidates ==
    {[j \in 1..n |-> BucketName(j)] : n \in 0..MaxTargets}
        \cup {<<BucketName(1), BucketName(1)>>}

(* no pure function is called on its own during a run *)
NoPureCall ==
    [fn |-> "none", iterable |-> <<>>, n |-> 0,
     names |-> <<>>, include_prefix |-> <<>>, exclude_regex |-> <<>>]
NoReturn == [done |-> FALSE, value |-> <<>>]

InitMain ==
    /\ mainpc = "start"
    /\ targets = <<>>
    /\ futs = <<>>
    /\ collected = {}
    /\ results = <<>>
    /\ errors = <<>>
    /\ report = [success |-> 0, total |-> 0, failed |-> <<>>]
    /\ exit_code = -1
    /\ call = NoPureCall
    /\ ret = NoReturn

(* a run over up to MaxTargets buckets of at most one object each *)
Init ==
    /\ limits = RunLimits
    /\ opts \in [candidates : Candidates, include_prefix : {<<>>}, exclude_regex : {<<>>},
                 max_workers : 1..MaxWorkers, batch_size : 1..RunLimits.keys,
                 dry_run : BOOLEAN, delete_bucket : BOOLEAN]
    /\ InitMain

(* a run over one bucket whose listing has up to MaxPages pages of up to   *)
(* MaxPageKeys keys                                                         *)
InitDrain ==
    /\ limits = DrainLimits
    /\ opts \in [candidates : {<<BucketName(1)>>}, include_prefix : {<<>>}, exclude_regex : {<<>>},
                 max_workers : {1}, batch_size : 1..MaxPageKeys,
                 dry_run : {FALSE}, delete_bucket : BOOLEAN]
    /\ InitMain

----------------------------------------------------------------------------
(* main *)

(* lines 127-151: filter, the two early exits, and the submission of one   *)
(* worker per target                                                        *)
main_start ==
    /\ mainpc = "start"
    /\ LET ts == filter_buckets(opts.candidates, opts.include_prefix, opts.exclude_regex) IN
       /\ targets' = ts
       /\ IF ts = <<>>
          THEN mainpc' = "done" /\ exit_code' = 1 /\ futs' = futs
          ELSE IF opts.dry_run
          THEN mainpc' = "done" /\ exit_code' = 0 /\ futs' = futs
          ELSE mainpc' = "collect" /\ exit_code' = exit_code
               /\ futs' = [t \in 1..Len(ts) |-> submit(ts[t])]
    /\ UNCHANGED <<opts, limits, collected, results, errors, report, call, ret>>

(* A mutant of main_except: the exception of a task is not caught, main    *)
(* dies with it.                                                            *)
main_except_uncaught(t) ==
    /\ errors' = Append(errors, futs[t].bucket)
    /\ results' = results
    /\ mainpc' = "done"
    /\ exit_code' = 1

(* lines 158-159: fut.result() raised *)
main_except(t) ==
    /\ errors' = Append(errors, futs[t].bucket)
    /\ results' = results
    /\ mainpc' = mainpc
    /\ exit_code' = exit_code

(* lines 155-157: fut.result() returned the summary dict *)
main_result(t) ==
    /\ results' = Append(results, [bucket |-> futs[t].bucket, deleted |-> futs[t].deleted,
                                   status |-> futs[t].status, final |-> futs[t].final])
    /\ errors' = errors
    /\ mainpc' = mainpc
    /\ exit_code' = exit_code

(* lines 152-159: as_completed yields a finished future *)
main_collect(t) ==
    /\ mainpc = "collect"
    /\ t \in DOMAIN futs
    /\ t \notin collected
    /\ Finished(futs[t])
    /\ IF futs[t].pc = "returned" THEN main_result(t) ELSE main_except(t)
    /\ collected' = collected \cup {t}
    /\ futs' = [futs EXCEPT ![t] = drop(drop(@, Log), RemoveLog)]
    /\ UNCHANGED <<opts, limits, targets, report, call, ret>>

IsSuccess(res) == res.final \in {"deleted", "gone"}

(* lines 161-171: all futures were yielded; the summary and the exit code *)
main_summary ==
    /\ mainpc = "collect"
    /\ collected = DOMAIN futs
    /\ LET ok == SelectSeq(results, LAMBDA res : IsSuccess(res))
           ng == SelectSeq(results, LAMBDA res : ~IsSuccess(res))
       IN  /\ report' = [success |-> Len(ok), total |-> Len(targets),
                         failed |-> [j \in 1..Len(ng) |-> [bucket |-> ng[j].bucket, status |-> ng[j].final]]]
           /\ exit_code' = IF ng = <<>> THEN 0 ELSE 2
    /\ mainpc' = "done"
    /\ UNCHANGED <<opts, limits, targets, futs, collected, results, errors, call, ret>>

----------------------------------------------------------------------------
(* The pool and the tasks *)

Step(t, r) ==
    /\ futs' = [futs EXCEPT ![t] = IF limits.log THEN r ELSE drop(drop(r, Log), RemoveLog)]
    /\ UNCHANGED <<opts, limits, mainpc, targets, collected, results, errors, report, exit_code,
                   call, ret>>

(* A mutant of worker_start: every queued work item gets a thread at once,   *)
(* whatever max_workers is.                                                 *)
worker_start_unbounded(t) ==
    /\ mainpc = "collect"
    /\ t \in DOMAIN futs
    /\ futs[t].pc = "pending"
    /\ \A u \in 1..(t - 1) : futs[u].pc # "pending"
    /\ Step(t, start_drain(futs[t], opts.batch_size, FALSE))

(* ThreadPoolExecutor(max_workers): a free thread takes the oldest queued  *)
(* work item and enters worker, lines 96-103                                *)
worker_start(t) ==
    /\ mainpc = "collect"
    /\ t \in DOMAIN futs
    /\ futs[t].pc = "pending"
    /\ \A u \in 1..(t - 1) : futs[u].pc # "pending"
    /\ Cardinality({u \in DOMAIN futs : Running(futs[u])}) < opts.max_workers
    /\ Step(t, start_drain(futs[t], opts.batch_size, FALSE))

(* the paginator serves the next page (line 46) *)
empty_bucket_page(t) ==
    /\ t \in DOMAIN futs
    /\ futs[t].pc = "list"
    /\ futs[t].page_no < limits.pages
    /\ \E k \in 0..limits.keys :
        LET r == futs[t]
            keys == [j \in 1..k |-> <<r.page_no + 1, j>>]
            r1 == [r EXCEPT !.page_no = r.page_no + 1,
                            !.pages = r.pages + 1, !.listed = r.listed + k,
                            !.last = <<"list", IF k = 0 THEN "empty_page" ELSE "page">>]
        IN  Step(t, on_page(r1, keys))

(* the paginator is exhausted (it serves at least one page): line 76 *)
empty_bucket_end(t) ==
    /\ t \in DOMAIN futs
    /\ futs[t].pc = "list"
    /\ futs[t].page_no >= 1
    /\ Step(t, drain_return([futs[t] EXCEPT !.last = <<"list", "end">>], "emptied"))

(* a listing call raises ClientError: no handler in empty_bucket covers    *)
(* line 46                                                                  *)
empty_bucket_list_error(t) ==
    /\ t \in DOMAIN futs
    /\ futs[t].pc = "list"
    /\ \E code \in ErrorCodes :
        Step(t, drain_raise([futs[t] EXCEPT !.last = <<"list", code>>], code))

(* delete_objects answers; the provider rejected the keys in failed and    *)
(* deleted the others (lines 55-67)                                         *)
empty_bucket_delete(t) ==
    /\ t \in DOMAIN futs
    /\ futs[t].pc = "delete"
    /\ \E failed \in SUBSET Range(futs[t].batch) :
        LET r == futs[t]
            r1 == [r EXCEPT !.deleted_keys = r.deleted_keys \cup (Range(r.batch) \ failed),
                            !.delete_calls = r.delete_calls + 1,
                            !.batch_calls = r.batch_calls + 1,
                            !.last = <<"delete_objects", IF failed = {} THEN "ok" ELSE "errors">>]
        IN  Step(t, on_response(r1, delete_objects_response(r.batch, failed, Quiet)))

(* delete_objects raises ClientError (lines 68-72) *)
empty_bucket_delete_error(t) ==
    /\ t \in DOMAIN futs
    /\ futs[t].pc = "delete"
    /\ \E code \in ErrorCodes :
        LET r == futs[t]
            r1 == [r EXCEPT !.delete_calls = r.delete_calls + 1,
                            !.batch_calls = r.batch_calls + 1,
                            !.last = <<"delete_objects", code>>]
        IN  Step(t, on_client_error(r1, code))

(* one delete_bucket call of the retry loop (lines 79-87); the frame of    *)
(* the drain that worker ran before is gone                                 *)
delete_bucket_attempt(t) ==
    /\ t \in DOMAIN futs
    /\ futs[t].pc = "rm"
    /\ \E res \in {"ok"} \cup ErrorCodes :
        LET r1 == log_delete_bucket(drop(futs[t], Log), res)
        IN  Step(t, delete_bucket_loop(r1, res))

(* the delete_bucket call after the fallback drain (lines 90-93) *)
delete_bucket_fallback(t) ==
    /\ t \in DOMAIN futs
    /\ futs[t].pc = "fb_rm"
    /\ \E res \in {"ok"} \cup ErrorCodes :
        LET r1 == log_delete_bucket(futs[t], res)
        IN  Step(t, delete_bucket_last(r1, res))

Tasks == 1..(MaxTargets + 1)

Next ==
    \/ main_start
    \/ \E t \in Tasks : worker_start(t)
    \/ \E t \in Tasks : empty_bucket_page(t)
    \/ \E t \in Tasks : empty_bucket_end(t)
    \/ \E t \in Tasks : empty_bucket_list_error(t)
    \/ \E t \in Tasks : empty_bucket_delete(t)
    \/ \E t \in Tasks : empty_bucket_delete_error(t)
    \/ \E t \in Tasks : delete_bucket_attempt(t)
    \/ \E t \in Tasks : delete_bucket_fallback(t)
    \/ \E t \in Tasks : main_collect(t)
    \/ main_summary

Spec == Init /\ [][Next]_vars

DrainSpec == InitDrain /\ [][Next]_vars

(* Fair scheduling: as long as some thread can take a step (main can go    *)
(* on, a queued work item can get a free pool thread, a provider call that  *)
(* was made comes back with a response or an error), a step is taken.       *)
FairSpec == Init /\ [][Next]_vars /\ WF_vars(Next)

----------------------------------------------------------------------------
(* The pure functions on their own: one call of batched or filter_buckets  *)
(* on arguments drawn from bounded sets.                                    *)

Keys == {"k1", "k2"}
KeySeqs == UNION {[1..len -> Keys] : len \in 0..MaxLen}

Names == {<<"a", "1">>, <<"a", "2">>, <<"b", "1">>}
NameLists == UNION {[1..len -> Names] : len \in 0..MaxNames}
Prefixes == {<<>>, <<"a">>, <<"b">>, <<"a", "1">>, <<"a", "1", "x">>}
Regexes == {<<>>, <<"2", "$">>, <<"^", "a">>, <<"1">>, <<"a">>, <<"^", "1">>, <<"$">>}

BatchedCalls ==
    {[NoPureCall EXCEPT !.fn = "batched", !.iterable = ks, !.n = m] :
        ks \in KeySeqs, m \in 1..(MaxLen + 1)}

FilterCalls ==
    {[NoPureCall EXCEPT !.fn = "filter_buckets", !.names = ns,
                        !.include_prefix = px, !.exclude_regex = rx] :
        ns \in NameLists, px \in Prefixes, rx \in Regexes}

InitPure ==
    /\ limits = RunLimits
    /\ opts = [candidates |-> <<>>, include_prefix |-> <<>>, exclude_regex |-> <<>>,
               max_workers |-> 1, batch_size |-> 1, dry_run |-> FALSE, delete_bucket |-> FALSE]
    /\ mainpc = "idle"
    /\ targets = <<>>
    /\ futs = <<>>
    /\ collected = {}
    /\ results = <<>>
    /\ errors = <<>>
    /\ report = [success |-> 0, total |-> 0, failed |-> <<>>]
    /\ exit_code = -1
    /\ call \in BatchedCalls \cup FilterCalls
    /\ ret = NoReturn

Return(v) ==
    /\ ~ret.done
    /\ ret' = [done |-> TRUE, value |-> v]
    /\ UNCHANGED <<opts, limits, mainpc, targets, futs, collected, results, errors, report,
                   exit_code, call>>

(* list(batched(iterable, n)): lines 18-26 *)
call_batched ==
    /\ call.fn = "batched"
    /\ Return(batched(call.iterable, call.n))

(* filter_buckets(names, include_prefix, exclude_regex): lines 32-39 *)
call_filter_buckets ==
    /\ call.fn = "filter_buckets"
    /\ Return(filter_buckets(call.names, call.include_prefix, call.exclude_regex))

NextPure == call_batched \/ call_filter_buckets

PureSpec == InitPure /\ [][NextPure]_vars

----------------------------------------------------------------------------
(* Properties of the run (main, worker), checked under Spec. *)

(* a run that was not a dry run and had at least one target is over *)
RunDone == mainpc = "done" /\ targets # <<>> /\ ~opts.dry_run

Raised(t) == futs[t].pc = "raised"
FailedNames == {report.failed[j].bucket : j \in DOMAIN report.failed}

(* C1: fault isolation.  When a run with targets (not a dry run) is over,  *)
(* it ended in the summary step (exit status 0 or 2), one task was         *)
(* submitted per target, and every task, whatever happened to its          *)
(* siblings, was started, ran to its own end (it returned or raised) and   *)
(* was collected.                                                           *)
C1_FaultIsolation ==
    RunDone =>
        /\ exit_code \in {0, 2}
        /\ report.total = Len(targets)
        /\ DOMAIN futs = 1..Len(targets)
        /\ \A t \in DOMAIN futs : Finished(futs[t]) /\ t \in collected
        /\ Len(results) + Len(errors) = Len(targets)

(* the first of two tasks on a single worker thread exhausted its delete   *)
(* retries, the second one was started after that and returned, and the    *)
(* run is over                                                              *)
C1_Witness ==
    /\ RunDone
    /\ opts.max_workers = 1
    /\ Len(targets) = 2
    /\ futs[1].exc = "RuntimeError"
    /\ futs[2].pc = "returned"

(* the task of target t raised because its drain exhausted its delete     *)
(* retries (line 74)                                                        *)
Exhausted(t) == Raised(t) /\ futs[t].exc = "RuntimeError"

(* C2: no failure is dropped from the summary.  In a run where the only    *)
(* tasks that raised are those whose drain exhausted its delete retries,   *)
(* every target is counted as a success or listed among the failed         *)
(* buckets, and each bucket whose drain exhausted its retries is listed by *)
(* name among the failed buckets.                                           *)
C2_NoFailureDropped ==
    (RunDone /\ \A t \in DOMAIN futs : Raised(t) => Exhausted(t)) =>
        /\ report.success + Len(report.failed) = report.total
        /\ \A t \in DOMAIN futs : Exhausted(t) => futs[t].bucket \in FailedNames

(* a target fails: its final status is Failed, or its drain exhausted its  *)
(* delete retries                                                           *)
TargetFailed(t) == Exhausted(t) \/ futs[t].final = "failed"

(* C3: the exit status of a run with targets (not a dry run) is 2 whenever *)
(* a target failed, and 0 only when no target failed.                      *)
C3_ExitStatus ==
    RunDone =>
        /\ (\E t \in DOMAIN futs : TargetFailed(t)) => exit_code = 2
        /\ exit_code = 0 => \A t \in DOMAIN futs : ~TargetFailed(t)

(* C4: kept-bucket case.  Without --delete-bucket a task whose drain did   *)
(* not raise has final = "emptied"; the run counts it as a success: it is  *)
(* not listed among the failed buckets, and when no task raised the exit   *)
(* status is 0.                                                             *)
C4_KeptBucketIsSuccess ==
    (RunDone /\ ~opts.delete_bucket) =>
        /\ \A t \in DOMAIN futs :
              futs[t].pc = "returned" =>
                  /\ futs[t].final = "emptied"
                  /\ futs[t].bucket \notin FailedNames
        /\ (\A t \in DOMAIN futs : futs[t].pc = "returned") => exit_code = 0

----------------------------------------------------------------------------
(* Properties of one task (empty_bucket, delete_bucket), checked under     *)
(* DrainSpec, where the tasks keep the log of their provider calls.        *)

(* C5: not-found during listing.  After a listing call that failed with    *)
(* NoSuchBucket the drain has not raised: it returned Gone with the total  *)
(* accumulated so far.                                                      *)
C5_ListingNotFoundIsGone ==
    \A t \in DOMAIN futs :
        futs[t].last = <<"list", "NoSuchBucket">> =>
            /\ futs[t].pc # "raised"
            /\ futs[t].drain_ret = "gone"

(* C6: the deleted-object count.  When a drain returns Emptied, its        *)
(* objectsDeleted is the number of keys it deleted.                        *)
C6_DeletedCount ==
    \A t \in DOMAIN futs :
        futs[t].drain_ret = "emptied" =>
            futs[t].drain_total = Cardinality(futs[t].deleted_keys)

(* the retry budget of the current batch is used up and no attempt got a   *)
(* response without per-key errors                                          *)
BudgetExhausted(r) ==
    /\ r.batch_calls = max_delete_retries
    /\ r.last[1] = "delete_objects"
    /\ r.last[2] # "ok"

(* C7 as stated: at most max_delete_retries delete calls are made for one  *)
(* original batch, and when that many were made and none got a response    *)
(* without per-key errors, the drain raised (it did not return Emptied or  *)
(* Gone).                                                                   *)
C7_ExhaustionRaises ==
    \A t \in DOMAIN futs :
        /\ futs[t].batch_calls <= max_delete_retries
        /\ BudgetExhausted(futs[t]) => futs[t].drain_ret = "raised"

(* C7, amended: at most max_delete_retries delete calls are made for one   *)
(* original batch, transient errors and narrowed retries counted alike;    *)
(* when that many were made and each ended in per-key errors or in a       *)
(* transient error, the drain raised and its frame is left (no further     *)
(* batch or page); when the last of them failed with NoSuchBucket instead, *)
(* the drain returned Gone.                                                 *)
C7_ExhaustionRaisesUnlessNotFound ==
    \A t \in DOMAIN futs :
        /\ futs[t].batch_calls <= max_delete_retries
        /\ BudgetExhausted(futs[t]) =>
              /\ futs[t].last[2] \in {"errors", "Other"} =>
                    /\ futs[t].drain_ret = "raised"
                    /\ futs[t].pc \in {"raised", "returned"}
              /\ futs[t].last[2] = "NoSuchBucket" => futs[t].drain_ret = "gone"

(* the fifth attempt for a batch ended in per-key errors and the task      *)
(* raised RuntimeError                                                      *)
C7_Witness ==
    \E t \in DOMAIN futs :
        /\ BudgetExhausted(futs[t])
        /\ futs[t].last[2] = "errors"
        /\ futs[t].exc = "RuntimeError"

C9_RemoveNotFoundIsGone ==
    \A t \in DOMAIN futs :
        (futs[t].pc = "returned" /\ opts.delete_bucket) =>
            /\ futs[t].last = <<"delete_bucket", "NoSuchBucket">> => futs[t].final = "gone"
            /\ futs[t].drain_ret = "gone" => futs[t].final = "gone"

(* C10: an already-empty bucket.  While no page of the listing has served  *)
(* a key, no delete_objects call is made; an empty page leaves the drain   *)
(* running, at the next listing call; and when such a listing is exhausted *)
(* the drain returns Emptied with objectsDeleted = 0.                      *)
C10_EmptyBucket ==
    \A t \in DOMAIN futs :
        /\ futs[t].listed = 0 => futs[t].delete_calls = 0 /\ futs[t].deleted_keys = {}
        /\ futs[t].last = <<"list", "empty_page">> =>
              futs[t].pc = "list" /\ futs[t].drain_ret = "none"
        /\ (futs[t].last = <<"list", "end">> /\ futs[t].listed = 0) =>
              /\ futs[t].drain_ret = "emptied"
              /\ futs[t].drain_total = 0
              /\ ~futs[t].fallback => futs[t].status = "emptied" /\ futs[t].deleted = 0

(* a listing of two empty pages was exhausted and the drain returned       *)
(* Emptied without a delete call                                            *)
C10_Witness ==
    \E t \in DOMAIN futs :
        /\ futs[t].last = <<"list", "end">>
        /\ futs[t].pages = 2
        /\ futs[t].listed = 0
        /\ futs[t].drain_ret = "emptied"
        /\ futs[t].delete_calls = 0

----------------------------------------------------------------------------
RECURSIVE Concat(_)
Concat(groups) == IF groups = <<>> THEN <<>> ELSE Head(groups) \o Concat(Tail(groups))

(* C11: for an input of L keys and a batch size N >= 1, batched yields     *)
(* ceil(L / N) groups whose concatenation in order is the input; every     *)
(* group holds at most N keys, every group but the last exactly N, and an  *)
(* empty input yields no group.                                             *)
C11_Batched ==
    (ret.done /\ call.fn = "batched") =>
        LET g == ret.value
            L == Len(call.iterable)
            N == call.n
        IN  /\ Len(g) = (L + N - 1) \div N
            /\ Concat(g) = call.iterable
            /\ \A i \in 1..Len(g) : Len(g[i]) >= 1 /\ Len(g[i]) <= N
            /\ \A i \in 1..(Len(g) - 1) : Len(g[i]) = N
            /\ (L = 0 => g = <<>>)

(* three keys in groups of two: a full group, then a shorter last group *)
C11_Witness ==
    /\ ret.done
    /\ call.fn = "batched"
    /\ call.iterable = <<"k1", "k2", "k1">>
    /\ call.n = 2
    /\ ret.value = << <<"k1", "k2">>, <<"k1">> >>

----------------------------------------------------------------------------
(* a name is kept when it starts with the prefix, if one is given, and the  *)
(* pattern, if one is given, matches nowhere in it                          *)
Kept(n, prefix, rx) ==
    /\ (prefix # <<>> => startswith(n, prefix))
    /\ (rx # <<>> => ~rx_search(rx, n))

RECURSIVE KeptInOrder(_, _, _)
KeptInOrder(names, prefix, rx) ==
    IF names = <<>> THEN <<>>
    ELSE (IF Kept(Head(names), prefix, rx) THEN <<Head(names)>> ELSE <<>>)
         \o KeptInOrder(Tail(names), prefix, rx)

ExampleNames == << <<"a", "1">>, <<"a", "2">>, <<"b", "1">> >>

(* C12: filter_buckets returns exactly the input names that start with     *)
(* includePrefix (when given) and in which excludeRegex (when given) finds *)
(* no match, in input order and multiplicity; filter(["a1","a2","b1"],     *)
(* "a", "2$") is ["a1"].                                                    *)
C12_FilterBuckets ==
    (ret.done /\ call.fn = "filter_buckets") =>
        /\ ret.value = KeptInOrder(call.names, call.include_prefix, call.exclude_regex)
        /\ (/\ call.names = ExampleNames
            /\ call.include_prefix = <<"a">>
            /\ call.exclude_regex = <<"2", "$">>) => ret.value = << <<"a", "1">> >>

(* the example of the claim, after the call returned *)
C12_Witness ==
    /\ ret.done
    /\ call.fn = "filter_buckets"
    /\ call.names = ExampleNames
    /\ call.include_prefix = <<"a">>
    /\ call.exclude_regex = <<"2", "$">>
    /\ ret.value = << <<"a", "1">> >>

----------------------------------------------------------------------------
(* this step of task t is a delete_objects call that raised a ClientError   *)
(* other than NoSuchBucket                                                  *)
TransientFailure(t) ==
    /\ t \in DOMAIN futs'
    /\ futs[t].pc = "delete"
    /\ futs'[t].delete_calls = futs[t].delete_calls + 1
    /\ futs'[t].last = <<"delete_objects", "Other">>

(* C13: the delay slept after a transient failure of attempt k is          *)
(* min(2^k * 0.5 s, 4.0 s) (in quarter seconds: min(2^k * 2, 16)); over     *)
(* consecutive transient failures on one batch the delays never decrease,   *)
(* stay at the cap once they reached it, and never exceed the cap.          *)
C13_Backoff ==
    [][\A t \in DOMAIN futs :
        TransientFailure(t) =>
            LET k == futs[t].attempt
                d == futs'[t].slept
                before == futs[t].slept
            IN  /\ d = (IF 2 ^ k * 2 <= 16 THEN 2 ^ k * 2 ELSE 16)
                /\ d <= 16
                /\ (futs[t].last = <<"delete_objects", "Other">> /\ futs[t].batch_calls > 0) =>
                        /\ d >= before
                        /\ (before = 16 => d = 16)]_vars

(* five transient failures on one batch: the fifth delay is again the cap *)
C13_Witness ==
    \E t \in DOMAIN futs :
        /\ futs[t].pc = "raised"
        /\ futs[t].exc = "RuntimeError"
        /\ futs[t].last = <<"delete_objects", "Other">>
        /\ futs[t].batch_calls = max_delete_retries
        /\ futs[t].slept = 16

----------------------------------------------------------------------------
(* this step of task t is a delete_objects call after which the same       *)
(* original batch is attempted again                                        *)
SameBatchRetry(t) ==
    /\ t \in DOMAIN futs'
    /\ futs[t].pc = "delete"
    /\ futs'[t].pc = "delete"
    /\ futs'[t].batch_calls = futs[t].batch_calls + 1

(* C14: after a response with per-key errors the next attempt submits      *)
(* exactly the keys reported as failed, a subset of the batch just sent;    *)
(* after a transient failure it submits the same batch; a retry leaves the  *)
(* later batches of the page as they were, and they are submitted as        *)
(* batched cut them.                                                        *)
C14_RetryScope ==
    [][\A t \in DOMAIN futs :
        /\ (SameBatchRetry(t) /\ futs'[t].last = <<"delete_objects", "errors">>) =>
                /\ Range(futs'[t].batch) = Range(futs[t].batch) \ futs'[t].deleted_keys
                /\ Range(futs'[t].batch) \subseteq Range(futs[t].batch)
                /\ Len(futs'[t].batch) = Cardinality(Range(futs'[t].batch))
                /\ futs'[t].batch # <<>>
        /\ (SameBatchRetry(t) /\ futs'[t].last = <<"delete_objects", "Other">>) =>
                futs'[t].batch = futs[t].batch
        /\ SameBatchRetry(t) => futs'[t].batches = futs[t].batches
        /\ (/\ t \in DOMAIN futs'
            /\ futs[t].pc = "delete"
            /\ futs'[t].pc = "delete"
            /\ futs'[t].batch_calls = 0) =>
                /\ futs'[t].batch = Head(futs[t].batches)
                /\ futs'[t].batches = Tail(futs[t].batches)]_vars

(* a batch of two keys was narrowed to the one key that failed *)
C14_Witness ==
    \E t \in DOMAIN futs :
        /\ futs[t].pc = "delete"
        /\ futs[t].last = <<"delete_objects", "errors">>
        /\ futs[t].batch_calls = 1
        /\ futs[t].n = 2
        /\ futs[t].pages = 1
        /\ futs[t].listed = 2
        /\ Len(futs[t].batch) = 1
        /\ Cardinality(futs[t].deleted_keys) = 1

----------------------------------------------------------------------------
(* C15: when a delete_objects call fails with NoSuchBucket the drain ends   *)
(* with that call: it returns gone with the total accumulated before the    *)
(* call, it has not slept, and its frame makes no further listing or        *)
(* delete call.                                                             *)
C15_DeleteNotFoundEndsDrain ==
    [][\A t \in DOMAIN futs :
        (/\ t \in DOMAIN futs'
         /\ futs[t].pc = "delete"
         /\ futs'[t].delete_calls = futs[t].delete_calls + 1
         /\ futs'[t].last = <<"delete_objects", "NoSuchBucket">>) =>
            /\ futs'[t].drain_ret = "gone"
            /\ futs'[t].drain_total = futs[t].total_deleted
            /\ futs'[t].slept = futs[t].slept
            /\ futs'[t].pc \notin {"list", "delete", "raised"}
            /\ futs'[t].pages = futs[t].pages
            /\ (~futs[t].fallback =>
                    /\ futs'[t].status = "gone"
                    /\ futs'[t].deleted = futs[t].total_deleted)]_vars

(* NoSuchBucket at the third attempt on a batch of the second page: the    *)
(* drain returned gone, the task returned with the bucket kept             *)
C15_Witness ==
    \E t \in DOMAIN futs :
        /\ futs[t].pc = "returned"
        /\ futs[t].last = <<"delete_objects", "NoSuchBucket">>
        /\ futs[t].drain_ret = "gone"
        /\ futs[t].status = "gone"
        /\ futs[t].pages = 2
        /\ futs[t].batch_calls = 3
        /\ futs[t].slept > 0
        /\ futs[t].deleted_keys # {}

----------------------------------------------------------------------------
(* what C16 says of every call of delete_bucket, but for the number of     *)
(* calls of a finished fallback                                             *)
RemoveStructure(r) ==
    /\ r.rm_calls <= retries + 1
    /\ r.fb_drains <= 1
    /\ (r.fb_drains = 0 => r.rm_calls <= retries)
    /\ (r.fb_drains = 1 => r.rm_calls >= retries /\ r.rm_other >= retries)
    /\ (r.last = <<"delete_bucket", "ok">> => r.pc = "returned" /\ r.final = "deleted")
    /\ (r.final = "deleted" => r.last = <<"delete_bucket", "ok">> /\ r.rm_other = r.rm_calls - 1)
    /\ (r.final = "failed" =>
            /\ r.fb_drains = 1
            /\ \/ r.drain_ret = "raised"
               \/ r.last[1] = "delete_bucket" /\ r.last[2] # "ok")
    /\ (r.pc = "fb_rm" => r.fb_drains = 1 /\ r.rm_calls = retries)

(* delete_bucket has returned from its fallback *)
FallbackDone(r) == r.pc = "returned" /\ r.fb_drains = 1

(* C16 as stated: delete_bucket makes at most retries calls in its loop    *)
(* and returns deleted on the first that succeeds; the fallback starts     *)
(* only after retries calls failed with an error other than NoSuchBucket,  *)
(* runs one drain and then makes exactly one more delete_bucket call;       *)
(* failed is returned only after the fallback failed.  (A fallback whose   *)
(* listing failed is left aside here.)                                      *)
C16_CallStructure ==
    \A t \in DOMAIN futs \ collected :
        /\ RemoveStructure(futs[t])
        /\ (FallbackDone(futs[t]) /\ futs[t].last[1] # "list") => futs[t].rm_calls = retries + 1

(* C16, amended: the same, but the delete_bucket call after the fallback   *)
(* drain is made only when that drain returned; when the drain raised, the  *)
(* fallback ends with failed and no further call.                           *)
C16_CallStructureUnlessDrainRaised ==
    \A t \in DOMAIN futs \ collected :
        /\ RemoveStructure(futs[t])
        /\ (FallbackDone(futs[t]) =>
                IF futs[t].drain_ret = "raised"
                THEN futs[t].rm_calls = retries /\ futs[t].final = "failed"
                ELSE futs[t].rm_calls = retries + 1)

(* the fallback drain emptied the bucket and the sixth delete_bucket call   *)
(* succeeded                                                                *)
C16_Witness ==
    \E t \in DOMAIN futs :
        /\ futs[t].pc = "returned"
        /\ futs[t].final = "deleted"
        /\ futs[t].fb_drains = 1
        /\ futs[t].drain_ret = "emptied"
        /\ futs[t].delete_calls > 0
        /\ futs[t].rm_calls = retries + 1
        /\ futs[t].rm_other = retries

----------------------------------------------------------------------------
(* the positions of a task: queued, about to make one provider call         *)
(* (list_objects_v2, delete_objects, delete_bucket in the loop or after the *)
(* fallback), or finished                                                   *)
Positions == {"pending", "list", "delete", "rm", "fb_rm", "returned", "raised"}

(* the provider calls task r has in flight *)
InFlight(r) == IF Running(r) THEN 1 ELSE 0

(* C17: at every moment at most max_workers tasks are executing, and a     *)
(* task is at one position of its strictly sequential code, with at most   *)
(* one provider call in flight.                                             *)
C17_BoundedPool ==
    /\ Cardinality({t \in DOMAIN futs : Running(futs[t])}) <= opts.max_workers
    /\ \A t \in DOMAIN futs :
        /\ futs[t].pc \in Positions
        /\ InFlight(futs[t]) <= 1
        /\ (futs[t].pc = "pending" => futs[t].final = "none" /\ futs[t].exc = "none")

(* two tasks and one thread: the first task is executing while the second  *)
(* waits in the queue                                                       *)
C17_Witness ==
    /\ opts.max_workers = 1
    /\ Len(futs) = 2
    /\ Running(futs[1])
    /\ futs[2].pc = "pending"

----------------------------------------------------------------------------
(* C18: no two tasks operate on the same bucket, and the results hold at    *)
(* most one BucketResult per bucket name, whatever the target list is (a    *)
(* file may name a bucket more than once).                                  *)
C18_OneTaskPerBucket ==
    /\ \A t, u \in DOMAIN futs :
        (t # u /\ Running(futs[t]) /\ Running(futs[u])) => futs[t].bucket # futs[u].bucket
    /\ \A j, k \in DOMAIN results :
        j # k => results[j].bucket # results[k].bucket

----------------------------------------------------------------------------
(* the pool is at work: tasks were submitted and main waits for them *)
Collecting == mainpc = "collect"

(* every task returned or raised and main made its summary *)
Completed ==
    /\ mainpc = "done"
    /\ exit_code \in {0, 2}
    /\ report.total = Len(targets)
    /\ \A t \in DOMAIN futs : Finished(futs[t])

(* C19: under fair scheduling a run that submitted its tasks always gets   *)
(* to the point where every task returned or raised and main made its      *)
(* summary; the attempt counters of the retry loops of empty_bucket and     *)
(* delete_bucket stay below their limits.                                   *)
C19_RunCompletes ==
    /\ Collecting ~> Completed
    /\ [](\A t \in DOMAIN futs :
            futs[t].attempt < max_delete_retries /\ futs[t].i < retries)

(* a run of two tasks is over: one raised out of its drain, the other went *)
(* through delete_bucket's loop and fallback and returned failed            *)
C19_Witness ==
    /\ Completed
    /\ exit_code = 2
    /\ \E j \in DOMAIN results : results[j].final = "failed"
    /\ \E t \in DOMAIN futs : Raised(t)

----------------------------------------------------------------------------
(* C20: when a drain returned emptied, every key its listing served was    *)
(* sent in a delete_objects call whose response reported no error for it:   *)
(* no listed key is left rejected or unsent.                                *)
C20_EmptiedMeansAllDeleted ==
    \A t \in DOMAIN futs :
        futs[t].drain_ret = "emptied" =>
            /\ Cardinality(futs[t].deleted_keys) = futs[t].listed
            /\ \A k \in futs[t].deleted_keys : k[1] \in 1..futs[t].pages

(* two pages of two keys, emptied after more delete calls than batches:    *)
(* some keys were rejected first and accepted at a later attempt            *)
C20_Witness ==
    \E t \in DOMAIN futs :
        /\ futs[t].drain_ret = "emptied"
        /\ futs[t].pages = MaxPages
        /\ futs[t].listed = MaxPages * MaxPageKeys
        /\ Cardinality(futs[t].deleted_keys) = futs[t].listed
        /\ futs[t].delete_calls > futs[t].listed

====
